---- MODULE Spec2Model ----
(***************************************************************************)
(* A model of src/ingame/objects.py: the four widget wrappers Button,      *)
(* Text, Image and Input, each of which creates one native tkinter widget  *)
(* under a Screen's root container, packs it, forwards config() to it and  *)
(* destroys it.                                                            *)
(*                                                                         *)
(* Python values are encoded as follows.                                   *)
(*   - An Optional value is a sequence: << >> is None, <<v>> is v.         *)
(*   - The values of a packargs mapping are tokens (strings): "None" is    *)
(*     the None object, "0", "False" and "" are the falsy objects 0,       *)
(*     False and the empty string, any other token is itself.              *)
(*   - A str that the code inspects (the image source) is a sequence of    *)
(*     one-character strings.                                              *)
(*   - A float is an IEEE 754 binary64 number, with its 53-bit significand *)
(*     kept exactly and rounded to nearest, ties to even.                  *)
(***************************************************************************)
EXTENDS Integers, Sequences, FiniteSets, TLC

\* Number of widget instances the application constructs.
MaxInst == 2
\* Largest image dimension and largest requested dimension drawn by SpecResize.
MaxDim == 16

Inst == 1..MaxInst
Kinds == {"Button", "Text", "Image", "Input"}
Null == 0
PyNone == "None"

VARIABLES
    status,     \* per instance: "none" (no constructor call yet), "live"
                \* (constructor returned), "failed" (constructor raised),
                \* "destroyed" (destroy() was called)
    kind,       \* per instance: the class whose constructor was called
    handle,     \* per instance: button_obj / text_obj / image_obj / input_obj
    photo,      \* per instance: _photo_image (Image only)
    children,   \* native widgets that exist under screen_obj.root
    packed,     \* native widgets the pack geometry manager manages
    image,      \* per native widget: the image resource it displays
    text,       \* per native widget: the content of an entry
    ret,        \* what the last call did and returned or raised
    call        \* SpecCtor, SpecResize: the arguments of the constructor call
                \* under study, and what the outside world answers to it

vars == <<status, kind, handle, photo, children, packed, image, text, ret, call>>

(***************************************************************************)
(* Python float arithmetic, as far as lines 152 and 154 use it: the true   *)
(* division of two positive ints, the product of an int and a float, and   *)
(* int() of a float.  A float is [c, e]: c = <<c1, c2, c3, c4>> are the 52 *)
(* fraction bits in four limbs of 13 bits, and the value is                *)
(* (1 + c1/2^13 + c2/2^26 + c3/2^39 + c4/2^52) * 2^e.                      *)
(***************************************************************************)

\* One limb of the significand holds 13 bits.
Limb == 2 ^ 13

\* Round to nearest, ties to even: c are the fraction bits of the exact
\* result, guard the next bit, sticky whether any later bit is set.
RoundNearestEven(c, guard, sticky, e) ==
    IF guard = 1 /\ (sticky \/ c[4] % 2 = 1)
    THEN LET t4 == c[4] + 1
             t3 == c[3] + t4 \div Limb
             t2 == c[2] + t3 \div Limb
             t1 == c[1] + t2 \div Limb
         IN  IF t1 \div Limb = 1
             THEN [c |-> <<0, 0, 0, 0>>, e |-> e + 1]
             ELSE [c |-> <<t1 % Limb, t2 % Limb, t3 % Limb, t4 % Limb>>, e |-> e]
    ELSE [c |-> c, e |-> e]

\* <<n', d', e>> with n/d = (n'/d') * 2^e and 1 <= n'/d' < 2.
RECURSIVE Normalize(_, _, _)
Normalize(n, d, e) ==
    IF n >= 2 * d THEN Normalize(n, 2 * d, e + 1)
    ELSE IF n < d THEN Normalize(2 * n, d, e - 1)
    ELSE <<n, d, e>>

\* a / b for ints a > 0, b > 0: long division, one limb at a time.
FloatDiv(a, b) ==
    LET nd == Normalize(a, b, 0)
        d  == nd[2]
        r0 == nd[1] - d
        r1 == (r0 * Limb) % d
        r2 == (r1 * Limb) % d
        r3 == (r2 * Limb) % d
        r4 == (r3 * Limb) % d
    IN  RoundNearestEven(<<(r0 * Limb) \div d, (r1 * Limb) \div d,
                           (r2 * Limb) \div d, (r3 * Limb) \div d>>,
                         (2 * r4) \div d, (2 * r4) % d # 0, nd[3])

\* The number of bits of n > 0, less one.
RECURSIVE Log2(_)
Log2(n) == IF n <= 1 THEN 0 ELSE 1 + Log2(n \div 2)

\* h * f for an int 0 < h < 2^13 (such an int converts to float exactly):
\* the exact product limb by limb, shifted right by s bits to bring the
\* leading bit back in place, and rounded.
FloatMulInt(h, f) ==
    LET t4  == h * f.c[4]
        t3  == h * f.c[3] + t4 \div Limb
        t2  == h * f.c[2] + t3 \div Limb
        t1  == h * f.c[1] + t2 \div Limb
        top == h + t1 \div Limb
        s   == Log2(top)
        p   == 2 ^ s
        q   == Limb \div p
    IN  RoundNearestEven(<<(top % p) * q + (t1 % Limb) \div p,
                           ((t1 % Limb) % p) * q + (t2 % Limb) \div p,
                           ((t2 % Limb) % p) * q + (t3 % Limb) \div p,
                           ((t3 % Limb) % p) * q + (t4 % Limb) \div p>>,
                         IF s = 0 THEN 0 ELSE ((t4 % Limb) % p) \div (p \div 2),
                         s # 0 /\ ((t4 % Limb) % p) % (p \div 2) # 0,
                         f.e + s)

\* int(f) for a float 0 < f < 2^27: truncation.
FloatToInt(f) ==
    IF f.e < 0 THEN 0
    ELSE IF f.e <= 13 THEN 2 ^ f.e + f.c[1] \div (2 ^ (13 - f.e))
    ELSE 2 ^ f.e + f.c[1] * 2 ^ (f.e - 13) + f.c[2] \div (2 ^ (26 - f.e))

(***************************************************************************)
(* Image.__init__, lines 148-155: the size handed to pil_img.resize.       *)
(***************************************************************************)

\* Truth value of an Optional[int]: None and 0 are false.
Truthy(x) == x # <<>> /\ x[1] # 0

\* int(orig_h * (width / orig_w)), and the same with the roles swapped.
ScaleDim(origOther, given, origGiven) ==
    FloatToInt(FloatMulInt(origOther, FloatDiv(given, origGiven)))

\* [resized, size]: whether resize is called, and with which (width, height).
ResizeStep(orig, width, height) ==
    IF Truthy(width) \/ Truthy(height)
    THEN IF Truthy(width) /\ ~Truthy(height)
         THEN [resized |-> TRUE,
               size |-> <<width[1], ScaleDim(orig[2], width[1], orig[1])>>]
         ELSE IF Truthy(height) /\ ~Truthy(width)
         THEN [resized |-> TRUE,
               size |-> <<ScaleDim(orig[1], height[1], orig[2]), height[1]>>]
         ELSE [resized |-> TRUE, size |-> <<width[1], height[1]>>]
    ELSE [resized |-> FALSE, size |-> orig]

(***************************************************************************)
(* The constructors.  Each is one linear sequence of steps that stops at   *)
(* the first step that raises; `did` lists the steps that completed.       *)
(***************************************************************************)

\* The classes of the objects passed as screen_obj.
ArgTypes == {"Screen", "ScreenSubclass", "Tk", "NoneType"}

\* A check that only rejects a missing screen: `screen_obj is not None`.
IsNotNone(t) == t # "NoneType"

\* isinstance(screen_obj, Screen)
IsInstanceScreen(t) == t \in {"Screen", "ScreenSubclass"}

\* A filter on truth instead of identity: {k: v for ... if v}.
FilterFalsy(m) ==
    [k \in {x \in DOMAIN m : m[x] \notin {PyNone, "0", "False", ""}} |-> m[k]]

\* {k: v for k, v in packargs.items() if v is not None}
FilterNone(m) == [k \in {x \in DOMAIN m : m[x] # PyNone} |-> m[k]]

\* The keyword arguments of the pack call: packargs is an Optional mapping,
\* None is replaced by {} first.
PackOptions(packargs) ==
    FilterNone(IF packargs = <<>> THEN [k \in {} |-> PyNone] ELSE packargs[1])

\* The value of tk.Button(...).pack(): the handle field assigned from the
\* chained call holds None.
NewHandleOfPack(i) == Null

\* The native widget and the PhotoImage a constructor call creates are new
\* objects: they are named after the instance under construction.
NewHandle(i) == i
NewPhoto(i) == i
\* A PhotoImage the application made itself.
ExternalPhoto == MaxInst + 1

Contains(seq, x) == \E n \in 1..Len(seq) : seq[n] = x

\* What raises in a constructor call besides the code's own checks: the
\* native toolkit, the HTTP client or the image library at one step, or none.
SimpleFails == {"none", "create", "pack"}

\* Button.__init__, Text.__init__, Input.__init__
SimpleCtor(argType, packargs, fail) ==
    IF ~IsInstanceScreen(argType)
    THEN [out |-> "TypeError", did |-> <<>>, pack |-> <<>>, size |-> <<>>]
    ELSE IF fail = "create"
    THEN [out |-> "TclError", did |-> <<>>, pack |-> <<>>, size |-> <<>>]
    ELSE IF fail = "pack"
    THEN [out |-> "TclError", did |-> <<"create">>,
          pack |-> PackOptions(packargs), size |-> <<>>]
    ELSE [out |-> "ok", did |-> <<"create", "pack">>,
          pack |-> PackOptions(packargs), size |-> <<>>]

\* The state after a constructor call of class k for instance i with outcome r.
Constructed(i, k, r) ==
    /\ status[i] = "none"
    /\ status' = [status EXCEPT ![i] = IF r.out = "ok" THEN "live" ELSE "failed"]
    /\ kind' = [kind EXCEPT ![i] = k]
    /\ photo' = [photo EXCEPT ![i] =
                    IF Contains(r.did, "photo") THEN NewPhoto(i) ELSE Null]
    /\ handle' = [handle EXCEPT ![i] =
                    IF Contains(r.did, "create") THEN NewHandle(i) ELSE Null]
    /\ children' = IF Contains(r.did, "create")
                   THEN children \cup {NewHandle(i)} ELSE children
    /\ image' = IF Contains(r.did, "create") /\ k = "Image"
                THEN [image EXCEPT ![NewHandle(i)] = NewPhoto(i)] ELSE image
    /\ packed' = IF Contains(r.did, "pack")
                 THEN packed \cup {NewHandle(i)} ELSE packed
    /\ ret' = [op |-> "init", inst |-> i, out |-> r.out, did |-> r.did,
               pack |-> r.pack, size |-> r.size, key |-> "", val |-> ""]
    /\ UNCHANGED <<text, call>>

ButtonInit(i, argType, packargs, fail) ==
    Constructed(i, "Button", SimpleCtor(argType, packargs, fail))

TextInit(i, argType, packargs, fail) ==
    Constructed(i, "Text", SimpleCtor(argType, packargs, fail))

InputInit(i, argType, packargs, fail) ==
    Constructed(i, "Input", SimpleCtor(argType, packargs, fail))

\* str.startswith
StartsWith(s, prefix) ==
    Len(s) >= Len(prefix) /\ SubSeq(s, 1, Len(prefix)) = prefix

\* source.startswith("http://") or source.startswith("https://")
IsUrl(source) ==
    \/ StartsWith(source, <<"h", "t", "t", "p", ":", "/", "/">>)
    \/ StartsWith(source, <<"h", "t", "t", "p", "s", ":", "/", "/">>)

\* A status check that only raises for a server error.
RaiseForServerError(code) == code >= 500 /\ code < 600

\* resp.raise_for_status() raises for a client or server error status.
RaiseForStatus(code) == code >= 400 /\ code < 600

ImageFails == {"none", "connect", "open", "resize", "photo", "create", "pack"}

\* Image.__init__.  orig is the size of the decoded image, code the status
\* of the HTTP response (read only for a URL source).
ImageCtor(argType, source, packargs, width, height, orig, code, fail) ==
    LET fetched == IF IsUrl(source) THEN <<"request", "status">> ELSE <<>>
        rs      == ResizeStep(orig, width, height)
        resized == IF rs.resized THEN <<"resize">> ELSE <<>>
        size    == IF rs.resized THEN rs.size ELSE <<>>
    IN
    IF ~IsInstanceScreen(argType)
    THEN [out |-> "TypeError", did |-> <<>>, pack |-> <<>>, size |-> <<>>]
    ELSE IF IsUrl(source) /\ fail = "connect"
    THEN [out |-> "ConnectionError", did |-> <<>>, pack |-> <<>>, size |-> <<>>]
    ELSE IF IsUrl(source) /\ RaiseForStatus(code)
    THEN [out |-> "HTTPError", did |-> <<"request">>, pack |-> <<>>, size |-> <<>>]
    ELSE IF fail = "open"
    THEN [out |-> "OpenError", did |-> fetched, pack |-> <<>>, size |-> <<>>]
    ELSE IF rs.resized /\ (fail = "resize" \/ rs.size[1] < 1 \/ rs.size[2] < 1)
    THEN [out |-> "ValueError", did |-> fetched \o <<"open">>,
          pack |-> <<>>, size |-> size]
    ELSE IF fail = "photo"
    THEN [out |-> "PhotoError", did |-> fetched \o <<"open">> \o resized,
          pack |-> <<>>, size |-> size]
    ELSE IF fail = "create"
    THEN [out |-> "TclError",
          did |-> fetched \o <<"open">> \o resized \o <<"photo">>,
          pack |-> <<>>, size |-> size]
    ELSE IF fail = "pack"
    THEN [out |-> "TclError",
          did |-> fetched \o <<"open">> \o resized \o <<"photo", "create">>,
          pack |-> PackOptions(packargs), size |-> size]
    ELSE [out |-> "ok",
          did |-> fetched \o <<"open">> \o resized \o <<"photo", "create", "pack">>,
          pack |-> PackOptions(packargs), size |-> size]

ImageInit(i, argType, source, packargs, width, height, orig, code, fail) ==
    Constructed(i, "Image",
                ImageCtor(argType, source, packargs, width, height, orig, code, fail))

(***************************************************************************)
(* config, destroy and get.  The application calls them on the instances   *)
(* whose constructor returned; they forward to the native widget, which    *)
(* raises TclError once it is destroyed.                                   *)
(***************************************************************************)

ConfigKeys == {"image", "textvariable"}
TextVals == {"", "a", "b"}
\* The values the application passes for an option: a PhotoImage of its own
\* for image, a StringVar (named by the string it holds) for textvariable.
ConfigVals(key) == IF key = "image" THEN {ExternalPhoto} ELSE TextVals

\* The native widget the instance's handle field refers to.
HandleOf(i) == handle[i]

\* What a call that is no constructor call leaves in ret.
Returned(op, i, out, key, val) ==
    [op |-> op, inst |-> i, out |-> out, did |-> <<>>, pack |-> <<>>,
     size |-> <<>>, key |-> key, val |-> val]

\* An entry has no image option; the other options are ones every widget
\* class here has.
NativeAccepts(k, key) == ~(k = "Input" /\ key = "image")

\* <handle>.config(**kwargs) with one keyword: the label of an Image shows
\* the image given, an entry shows the content of the variable given, and
\* the toolkit raises for an option the widget does not have or (nativeOk
\* false) a value it rejects.  The options of the other widgets are not
\* followed.
WidgetConfig(i, key, val, nativeOk) ==
    /\ status[i] \in {"live", "destroyed"}
    /\ IF status[i] = "live" /\ nativeOk /\ NativeAccepts(kind[i], key)
       THEN /\ image' = IF key = "image" /\ kind[i] = "Image"
                        THEN [image EXCEPT ![HandleOf(i)] = val] ELSE image
            /\ text' = IF key = "textvariable" /\ kind[i] = "Input"
                       THEN [text EXCEPT ![HandleOf(i)] = val] ELSE text
            /\ ret' = Returned("config", i, "ok", key,
                               IF key = "textvariable" THEN val ELSE "")
       ELSE /\ ret' = Returned("config", i, "TclError", key, "")
            /\ UNCHANGED <<image, text>>
    /\ UNCHANGED <<status, kind, handle, photo, children, packed, call>>

ButtonConfig(i, key, val, nativeOk) ==
    kind[i] = "Button" /\ WidgetConfig(i, key, val, nativeOk)

TextConfig(i, key, val, nativeOk) ==
    kind[i] = "Text" /\ WidgetConfig(i, key, val, nativeOk)

ImageConfig(i, key, val, nativeOk) ==
    kind[i] = "Image" /\ WidgetConfig(i, key, val, nativeOk)

InputConfig(i, key, val, nativeOk) ==
    kind[i] = "Input" /\ WidgetConfig(i, key, val, nativeOk)

\* <handle>.pack_forget() in place of destroy(): the widget leaves the packer
\* and stays a child of the root.
WidgetForget(i) ==
    /\ status[i] \in {"live", "destroyed"}
    /\ status' = [status EXCEPT ![i] = "destroyed"]
    /\ packed' = packed \ {HandleOf(i)}
    /\ ret' = Returned("destroy", i, "ok", "", "")
    /\ UNCHANGED <<kind, handle, photo, children, image, text, call>>

\* <handle>.destroy(): the native widget leaves its parent and the packer;
\* destroying a widget that is gone changes nothing.
WidgetDestroy(i) ==
    /\ status[i] \in {"live", "destroyed"}
    /\ status' = [status EXCEPT ![i] = "destroyed"]
    /\ children' = children \ {HandleOf(i)}
    /\ packed' = packed \ {HandleOf(i)}
    /\ image' = [image EXCEPT ![HandleOf(i)] = Null]
    /\ text' = [text EXCEPT ![HandleOf(i)] = ""]
    /\ ret' = Returned("destroy", i, "ok", "", "")
    /\ UNCHANGED <<kind, handle, photo, call>>

ButtonDestroy(i) == kind[i] = "Button" /\ WidgetDestroy(i)

TextDestroy(i) == kind[i] = "Text" /\ WidgetDestroy(i)

ImageDestroy(i) == kind[i] = "Image" /\ WidgetDestroy(i)

InputDestroy(i) == kind[i] = "Input" /\ WidgetDestroy(i)

\* A get that reads a variable nobody wrote: always the empty string.
EntryGetEmpty(h) == ""

\* self.input_obj.get(): the content of the entry.
EntryGet(h) == text[h]

\* Input.get
InputGet(i) ==
    /\ kind[i] = "Input"
    /\ status[i] \in {"live", "destroyed"}
    /\ ret' = IF status[i] = "live"
              THEN Returned("get", i, "ok", "", EntryGet(HandleOf(i)))
              ELSE Returned("get", i, "TclError", "", "")
    /\ UNCHANGED <<status, kind, handle, photo, children, packed, image, text, call>>

(***************************************************************************)
(* Spec: an application that constructs up to MaxInst widgets on one       *)
(* screen, the i-th constructor call making instance i, and configures,    *)
(* reads and destroys them in any order.                                   *)
(***************************************************************************)

PackKeys == {"side", "padx"}
PackVals == {PyNone, "0", "False", "", "left"}
\* Every Optional mapping from some of the keys to the values.
AllPackArgs ==
    {<<>>} \cup {<<m>> : m \in UNION {[d -> PackVals] : d \in SUBSET PackKeys}}

Sources ==
    { <<"h", "t", "t", "p", ":", "/", "/", "a">>,
      <<"h", "t", "t", "p", "s", ":", "/", "/", "a">>,
      <<"H", "T", "T", "P", ":", "/", "/", "a">>,
      <<"a", ".", "p", "n", "g">> }
\* The response status of the server, 0 where no request is made.
Responses(source) == IF IsUrl(source) THEN {200, 404, 500} ELSE {0}

\* The arguments in Spec: a Screen or not, no packargs, a URL or a path,
\* no size or a height.
SomeArgTypes == {"Screen", "Tk"}
SomeSources == {<<"h", "t", "t", "p", ":", "/", "/", "a">>, <<"a", ".", "p", "n", "g">>}
SomeResponses(source) == IF IsUrl(source) THEN {200, 404} ELSE {0}
SomeHeights == {<<>>, <<1>>}
SomeSize == <<4, 2>>

NoCall == [op |-> "none", inst |-> 0, out |-> "ok", did |-> <<>>,
           pack |-> <<>>, size |-> <<>>, key |-> "", val |-> ""]
CallIdle == [kind |-> "none", argType |-> "", source |-> <<>>, packargs |-> <<>>,
             width |-> <<>>, height |-> <<>>, orig |-> <<>>, code |-> 0,
             fail |-> "none"]

\* No constructor was called yet.
Fresh ==
    /\ status = [i \in Inst |-> "none"]
    /\ kind = [i \in Inst |-> "none"]
    /\ handle = [i \in Inst |-> Null]
    /\ photo = [i \in Inst |-> Null]
    /\ children = {}
    /\ packed = {}
    /\ image = [h \in Inst |-> Null]
    /\ text = [h \in Inst |-> ""]
    /\ ret = NoCall

Init == Fresh /\ call = CallIdle

\* Instance i is the next one to construct.
IsNext(i) == \A j \in Inst : j < i => status[j] # "none"

\* The application's calls on instance i.
NewButton(i) ==
    /\ IsNext(i)
    /\ \E t \in SomeArgTypes, f \in SimpleFails : ButtonInit(i, t, <<>>, f)

NewText(i) ==
    /\ IsNext(i)
    /\ \E t \in SomeArgTypes, f \in SimpleFails : TextInit(i, t, <<>>, f)

NewInput(i) ==
    /\ IsNext(i)
    /\ \E t \in SomeArgTypes, f \in SimpleFails : InputInit(i, t, <<>>, f)

NewImage(i) ==
    /\ IsNext(i)
    /\ \E t \in SomeArgTypes, src \in SomeSources, h \in SomeHeights,
          f \in ImageFails :
         \E code \in SomeResponses(src) :
            ImageInit(i, t, src, <<>>, <<>>, h, SomeSize, code, f)

ConfigButton(i) ==
    \E key \in ConfigKeys, ok \in BOOLEAN :
        \E val \in ConfigVals(key) : ButtonConfig(i, key, val, ok)

ConfigText(i) ==
    \E key \in ConfigKeys, ok \in BOOLEAN :
        \E val \in ConfigVals(key) : TextConfig(i, key, val, ok)

ConfigImage(i) ==
    \E key \in ConfigKeys, ok \in BOOLEAN :
        \E val \in ConfigVals(key) : ImageConfig(i, key, val, ok)

ConfigInput(i) ==
    \E key \in ConfigKeys, ok \in BOOLEAN :
        \E val \in ConfigVals(key) : InputConfig(i, key, val, ok)

Next ==
    \E i \in Inst :
        \/ NewButton(i)
        \/ NewText(i)
        \/ NewInput(i)
        \/ NewImage(i)
        \/ ConfigButton(i)
        \/ ConfigText(i)
        \/ ConfigImage(i)
        \/ ConfigInput(i)
        \/ ButtonDestroy(i)
        \/ TextDestroy(i)
        \/ ImageDestroy(i)
        \/ InputDestroy(i)
        \/ InputGet(i)

Spec == Init /\ [][Next]_vars

(***************************************************************************)
(* SpecCtor: one constructor call on a fresh screen, its arguments and the *)
(* outside world's answers drawn from all the combinations.                *)
(***************************************************************************)

CtorDims == {<<>>, <<0>>, <<1>>}

SimpleCalls ==
    [kind : {"Button", "Text", "Input"}, argType : ArgTypes, source : {<<>>},
     packargs : AllPackArgs, width : {<<>>}, height : {<<>>}, orig : {<<>>},
     code : {0}, fail : SimpleFails]

ImageCalls ==
    UNION {[kind : {"Image"}, argType : ArgTypes, source : {src},
            packargs : AllPackArgs, width : CtorDims, height : CtorDims,
            orig : {SomeSize}, code : Responses(src), fail : ImageFails]
           : src \in Sources}

CtorInit == Fresh /\ call \in SimpleCalls \cup ImageCalls

CallButton ==
    call.kind = "Button" /\ ButtonInit(1, call.argType, call.packargs, call.fail)

CallText ==
    call.kind = "Text" /\ TextInit(1, call.argType, call.packargs, call.fail)

CallInput ==
    call.kind = "Input" /\ InputInit(1, call.argType, call.packargs, call.fail)

CallImage ==
    /\ call.kind = "Image"
    /\ ImageInit(1, call.argType, call.source, call.packargs, call.width,
                 call.height, call.orig, call.code, call.fail)

CtorNext == CallButton \/ CallText \/ CallInput \/ CallImage

SpecCtor == CtorInit /\ [][CtorNext]_vars

(***************************************************************************)
(* SpecResize: one Image constructor call on a fresh screen with a local   *)
(* file that decodes, every image size and every width and height up to    *)
(* MaxDim, and the sizes the documentation gives as examples.              *)
(***************************************************************************)

ExampleSizes == {<<200, 100>>}
ExampleDims == {<<50>>, <<100>>}
ResizeSizes == ((1..MaxDim) \X (1..MaxDim)) \cup ExampleSizes
ResizeDims == {<<>>} \cup {<<n>> : n \in 0..MaxDim} \cup ExampleDims

ResizeCalls ==
    [kind : {"Image"}, argType : {"Screen"}, source : {<<"a", ".", "p", "n", "g">>},
     packargs : {<<>>}, width : ResizeDims, height : ResizeDims,
     orig : ResizeSizes, code : {0}, fail : {"none"}]

ResizeInit == Fresh /\ call \in ResizeCalls

ResizeNext == CallImage

SpecResize == ResizeInit /\ [][ResizeNext]_vars

(***************************************************************************)
(* The claims.                                                             *)
(***************************************************************************)

\* The classes whose instances are Screen instances, as the claims read it.
ScreenClasses == {"Screen", "ScreenSubclass"}

\* C1: for each widget type, a constructor call whose first argument is no
\* Screen instance raises TypeError and creates nothing: no handle, no
\* native widget under the root, nothing packed, and for Image no HTTP
\* request, no decode and no PhotoImage (no step completed).
C1_TypeCheckFirst ==
    (ret.op = "init" /\ call.argType \notin ScreenClasses) =>
        /\ ret.out = "TypeError"
        /\ ret.did = <<>>
        /\ status[1] = "failed"
        /\ handle[1] = Null
        /\ photo[1] = Null
        /\ children = {}
        /\ packed = {}

C1_Witness ==
    /\ ret.op = "init"
    /\ call.kind = "Image"
    /\ call.argType = "Tk"
    /\ IsUrl(call.source)
    /\ call.code = 200
    /\ ret.out = "TypeError"

\* C2: after a constructor call the widget is either fully constructed
\* (the call returned, the native widget exists under the root and is
\* packed) or not constructed at all (the call raised and no native widget
\* exists under the root).
C2_AllOrNothing ==
    ret.op = "init" =>
        IF ret.out = "ok"
        THEN status[1] = "live" /\ handle[1] \in children /\ handle[1] \in packed
        ELSE status[1] = "failed" /\ children = {} /\ packed = {}

\* C3: for every widget type and every packargs, the options pack is called
\* with are exactly the entries of packargs whose value is not None, keys
\* and values unchanged (falsy values included), and no options at all when
\* packargs is omitted.
C3_PackOptions ==
    (ret.op = "init" /\ Contains(ret.did, "create")) =>
        IF call.packargs = <<>>
        THEN DOMAIN ret.pack = {}
        ELSE /\ DOMAIN ret.pack =
                    {k \in DOMAIN call.packargs[1] : call.packargs[1][k] # "None"}
             /\ \A k \in DOMAIN ret.pack : ret.pack[k] = call.packargs[1][k]

C3_Witness ==
    /\ ret.op = "init"
    /\ ret.out = "ok"
    /\ call.kind = "Text"
    /\ call.packargs # <<>>
    /\ DOMAIN call.packargs[1] = {"side", "padx"}
    /\ call.packargs[1]["side"] = "None"
    /\ call.packargs[1]["padx"] = "0"
    /\ DOMAIN ret.pack = {"padx"}

\* C4: an Image constructor call on a Screen with a source that starts with
\* http:// or https:// whose response has an error status raises HTTPError
\* after the request and before anything else: nothing is decoded, no
\* PhotoImage is assigned, no label is created or packed.
C4_HttpErrorNoLabel ==
    (/\ ret.op = "init"
     /\ call.kind = "Image"
     /\ call.argType \in ScreenClasses
     /\ \/ StartsWith(call.source, <<"h", "t", "t", "p", ":", "/", "/">>)
        \/ StartsWith(call.source, <<"h", "t", "t", "p", "s", ":", "/", "/">>)
     /\ call.fail # "connect"
     /\ call.code \in {404, 500}) =>
        /\ ret.out = "HTTPError"
        /\ ret.did = <<"request">>
        /\ status[1] = "failed"
        /\ handle[1] = Null
        /\ photo[1] = Null
        /\ children = {}
        /\ packed = {}

C4_Witness ==
    /\ ret.op = "init"
    /\ call.kind = "Image"
    /\ StartsWith(call.source, <<"h", "t", "t", "p", "s", ":", "/", "/">>)
    /\ call.code = 404
    /\ call.fail = "none"
    /\ ret.out = "HTTPError"

\* C5: with only width w given for an image of size (W, H) the resize
\* target is (w, trunc(H * w / W)), and with only height h given it is
\* (trunc(W * h / H), h); (200, 100) with width 100 gives height 50 and
\* with height 50 gives width 100.
C5_ResizeExact ==
    ret.op = "init" =>
        /\ (call.width # <<>> /\ call.width[1] > 0 /\ call.height = <<>>) =>
              ret.size = <<call.width[1],
                           (call.orig[2] * call.width[1]) \div call.orig[1]>>
        /\ (call.height # <<>> /\ call.height[1] > 0 /\ call.width = <<>>) =>
              ret.size = <<(call.orig[1] * call.height[1]) \div call.orig[2],
                           call.height[1]>>

\* C10: whenever the constructor resizes, for positive image dimensions and
\* positive given width and/or height, both dimensions of the size handed
\* to resize are at least 1.
C10_ResizeTargetPositive ==
    (/\ ret.op = "init"
     /\ ret.size # <<>>
     /\ call.width = <<>> \/ call.width[1] > 0
     /\ call.height = <<>> \/ call.height[1] > 0) =>
        ret.size[1] >= 1 /\ ret.size[2] >= 1

\* C6: destroy() removes the instance's native widget from the root's
\* children and from the packer and leaves the native widgets of the other
\* instances as they are; and in every later step, whatever the operation,
\* the destroyed widget stays absent.
C6_DestroyedStaysGone ==
    [][\A i \in Inst :
          /\ status[i] = "destroyed" =>
                /\ status'[i] = "destroyed"
                /\ handle'[i] = handle[i]
                /\ handle[i] \notin children' \cup packed'
          /\ (ret'.op = "destroy" /\ ret'.inst = i) =>
                /\ handle[i] \notin children' \cup packed'
                /\ \A j \in Inst \ {i} :
                      /\ handle[j] \in children <=> handle[j] \in children'
                      /\ handle[j] \in packed <=> handle[j] \in packed'
                      /\ status'[j] = status[j]]_vars

C6_Witness ==
    /\ status[1] = "destroyed"
    /\ handle[1] \notin children
    /\ status[2] = "live"
    /\ handle[2] \in children
    /\ ret.op = "config"
    /\ ret.inst = 1

\* C7: the handle field of a constructed widget is not null, and no step
\* taken while the widget is live (a config that succeeds or raises, a get)
\* replaces it.
C7_HandleStable ==
    [][\A i \in Inst :
          /\ status'[i] = "live" => handle'[i] # Null
          /\ status[i] = "live" => handle'[i] = handle[i]]_vars

C7_Witness ==
    /\ status[1] = "live"
    /\ handle[1] # Null
    /\ ret.op = "config"
    /\ ret.inst = 1
    /\ ret.out = "TclError"

\* C8: for every live Image the image its label displays is the one its
\* _photo_image field refers to.
C8_LabelShowsOwnedPhoto ==
    \A i \in Inst :
        (kind[i] = "Image" /\ status[i] = "live") =>
            photo[i] # Null /\ image[handle[i]] = photo[i]

\* C9: a get() that returns returns the content of the instance's entry and
\* changes nothing; right after a config that set the text variable to s it
\* returns s.
C9_GetReturnsContent ==
    [][(ret'.op = "get" /\ ret'.out = "ok") =>
          /\ ret'.val = text[handle[ret'.inst]]
          /\ UNCHANGED <<status, kind, handle, photo, children, packed, image, text>>
          /\ (/\ ret.op = "config"
              /\ ret.out = "ok"
              /\ ret.key = "textvariable"
              /\ ret.inst = ret'.inst) => ret'.val = ret.val]_vars

C9_Witness ==
    /\ ret.op = "get"
    /\ ret.out = "ok"
    /\ ret.val = "b"
    /\ status[ret.inst] = "live"
    /\ text[handle[ret.inst]] = "b"

====
